---- MODULE Spec2Model ----
(***************************************************************************)
(* Novel-Forge Tracker (src/main.py): the TinyDB store, load_data,        *)
(* save_data, the chapter reconciler of the data_editor tab and the       *)
(* handlers of the sidebar, the editing-pass tab and the to-do tab.       *)
(* One step of the model is one run of the Streamlit script.              *)
(***************************************************************************)
EXTENDS Integers, Sequences, FiniteSets, TLC

(***************************************************************************)
(* Bounds of the model.                                                    *)
(***************************************************************************)
\* script runs explored; the clock get_local_now() advances with every run
MaxTime == 3
\* rows a user appends to the chapter table in one submission
MaxNew == 2
\* editing passes / todos a session may hold
MaxItems == 1
\* script runs that fall on one local calendar date
TicksPerDay == 3

(***************************************************************************)
(* Program constants.                                                      *)
(***************************************************************************)
MAX_SNAPSHOTS == 5
DefaultTargetWordCount == 80000
TargetStep == 1000

(***************************************************************************)
(* Python values.  A dict key that is absent is a sentinel of the field's *)
(* type; None is a sentinel too.  Deadlines are records so that a string  *)
(* and a date object of the same day are different values:                *)
(*   iso   the string "YYYY-MM-DD" of day d (what strftime writes)        *)
(*   loose a string strptime("%Y-%m-%d") accepts that is not zero padded  *)
(*         ("2025-6-1")                                                   *)
(*   bad   a string strptime rejects                                      *)
(*   date  a datetime.date object                                         *)
(*   none  None, or the key is absent (the code reads these keys with     *)
(*         dict.get only, and JSON null is what TinyDB stores for None)   *)
(* '_changed' absent and '_changed': False are read alike                  *)
(* (chapter.get('_changed', False)), so the flag is a Boolean.            *)
(***************************************************************************)
MissingWc == -1
MissingStr == "<missing>"
NoTime == 0
DNone == [k |-> "none", d |-> 0]
DBad == [k |-> "bad", d |-> 0]
IsoStr(d) == [k |-> "iso", d |-> d]
LooseStr(d) == [k |-> "loose", d |-> d]
DateObj(d) == [k |-> "date", d |-> d]

IsStr(v) == v.k \in {"iso", "loose", "bad"}
IsDate(v) == v.k = "date"
\* bool(v) of a deadline value: None is falsy, the strings and dates modelled are not
Truthy(v) == v.k \in {"iso", "loose", "bad", "date"}

\* datetime.strptime(s, "%Y-%m-%d").date(): ok is FALSE where Python raises
\* ValueError (unparsable string) or TypeError (not a string)
strptime(s) ==
  IF s.k \in {"iso", "loose"} THEN [ok |-> TRUE, v |-> DateObj(s.d)]
  ELSE [ok |-> FALSE, v |-> DNone]

\* date.strftime('%Y-%m-%d')
strftime(v) == IsoStr(v.d)

\* json.dumps accepts None and strings, and raises TypeError on a date object
JsonOk(v) == v.k # "date"

Max(S) == CHOOSE x \in S : \A y \in S : y <= x
Min(S) == CHOOSE x \in S : \A y \in S : x <= y

RECURSIVE SortedSeq(_)
\* the elements of a finite set of integers in ascending order
SortedSeq(S) == IF S = {} THEN <<>> ELSE <<Min(S)>> \o SortedSeq(S \ {Min(S)})

(***************************************************************************)
(* TinyDB tables: a function from doc_id to document.                      *)
(***************************************************************************)
EmptyTable == <<>>

TableIds(t) == DOMAIN t

\* Table.contains(doc_id=i)
TableContains(t, i) == i \in DOMAIN t

\* Table._get_next_id on a freshly opened table: 1 + the largest doc_id, 1 if empty
TableNextId(t) == IF DOMAIN t = {} THEN 1 ELSE Max(DOMAIN t) + 1

\* Table.insert(dict): TinyDB picks the doc_id, the dict's own 'id' key is data
TableInsert(t, doc) ==
  LET i == TableNextId(t) IN [j \in DOMAIN t \cup {i} |-> IF j = i THEN doc ELSE t[j]]

\* dict.update(fields) on a stored document: keys absent from fields stay
MergeDoc(old, new) ==
  [new EXCEPT !.title = IF new.title = MissingStr THEN old.title ELSE new.title]

\* chapters_table.update(chapter, doc_ids=[i])
TableUpdate(t, i, doc) == [t EXCEPT ![i] = MergeDoc(t[i], doc)]

\* table.update(item, doc_ids=[i]) of a pass or a todo, whose dict holds every key
TablePut(t, i, doc) == [t EXCEPT ![i] = doc]

\* Table.remove(doc_ids=ids)
TableRemove(t, ids) == [j \in DOMAIN t \ ids |-> t[j]]

\* a get_next_id that counts the documents instead of taking the largest doc_id
get_next_id_by_count(t) == Cardinality(TableIds(t)) + 1

\* get_next_id(table)
get_next_id(t) ==
  LET ids == TableIds(t) IN (IF ids = {} THEN 0 ELSE Max(ids)) + 1

(***************************************************************************)
(* Records of the four collections.                                        *)
(***************************************************************************)
Chapter(i, t, s, wc, pwc, p, dl, dlo, le, ch) ==
  [id |-> i, title |-> t, status |-> s, word_count |-> wc,
   previous_word_count |-> pwc, priority |-> p, deadline |-> dl,
   deadline_obj |-> dlo, last_edited |-> le, changed |-> ch]

DefaultMetadata ==
  [project_start_word_count |-> 0, target_word_count |-> DefaultTargetWordCount,
   dark_mode |-> FALSE, doc_id |-> 1]

\* demo_data.json: three chapters, no 'metadata' key
DemoChapters ==
  << Chapter(0, "A", "Draft", 1, MissingWc, "Low", DNone, DNone, NoTime, FALSE),
     Chapter(0, "B", "Draft", 2, MissingWc, "Low", DNone, DNone, NoTime, FALSE),
     Chapter(0, "C", "Draft", 0, MissingWc, "Low", DNone, DNone, NoTime, FALSE) >>

EmptyStore ==
  [chapters |-> EmptyTable, editing_passes |-> EmptyTable, todos |-> EmptyTable,
   metadata |-> EmptyTable]

\* TinyDB(DB_FILE, indent=4): JSONStorage opens the file 'r+' and creates it
\* first when it does not exist, so the file exists from line 35 on
OpenDb(exists) == TRUE

RECURSIVE InsertAll(_, _)
\* for item in items: table.insert(item)
InsertAll(t, items) ==
  IF items = <<>> THEN t ELSE InsertAll(TableInsert(t, Head(items)), Tail(items))

\* load_data, lines 249-261: deadline_obj and the defaults of one chapter
LoadChapter(doc, i) ==
  LET p == strptime(doc.deadline) IN
  [doc EXCEPT
     !.id = i,
     !.deadline_obj = IF Truthy(doc.deadline) /\ p.ok THEN p.v ELSE DNone,
     !.word_count = IF doc.word_count = MissingWc THEN 0 ELSE doc.word_count,
     !.previous_word_count =
        IF doc.previous_word_count = MissingWc THEN 0 ELSE doc.previous_word_count,
     !.status = IF doc.status = MissingStr THEN "Not Started" ELSE doc.status,
     !.priority = IF doc.priority = MissingStr THEN "Low" ELSE doc.priority]

\* [{**doc, 'id': doc.doc_id} for doc in table.all()]
LoadItems(t) ==
  LET ids == SortedSeq(TableIds(t)) IN
  [n \in 1..Len(ids) |-> [t[ids[n]] EXCEPT !.id = ids[n]]]

\* load_data(): the store after the demo seeding, and the state returned
load_data(st, fileExists, demoExists) ==
  LET seeded ==
        IF ~fileExists /\ demoExists
        THEN [st EXCEPT !.chapters = InsertAll(st.chapters, DemoChapters)]
        ELSE st
      ids == SortedSeq(TableIds(seeded.chapters))
  IN [store |-> seeded,
      state |->
        [chapters |-> [n \in 1..Len(ids) |-> LoadChapter(seeded.chapters[ids[n]], ids[n])],
         editing_passes |-> LoadItems(seeded.editing_passes),
         todos |-> LoadItems(seeded.todos),
         metadata |-> IF TableIds(seeded.metadata) = {} THEN DefaultMetadata
                      ELSE seeded.metadata[Min(TableIds(seeded.metadata))]]]

(***************************************************************************)
(* create_snapshot: the snapshot directory is a set of files               *)
(* [name |-> the date in the file name, mtime |-> its modification time]. *)
(***************************************************************************)
\* get_local_now().strftime("%Y-%m-%d") of the clock value t
LocalDate(t) == t \div TicksPerDay

\* sorted(glob, key=mtime, reverse=True)[:MAX_SNAPSHOTS]
NewestSnapshots(files) ==
  {f \in files : Cardinality({g \in files : g.mtime > f.mtime}) < MAX_SNAPSHOTS}

\* a create_snapshot that copies the database whether or not today's file exists
create_snapshot_always(files, t) ==
  NewestSnapshots(files \cup {[name |-> LocalDate(t), mtime |-> t]})

create_snapshot(files, t) ==
  IF \E f \in files : f.name = LocalDate(t) THEN files
  ELSE NewestSnapshots(files \cup {[name |-> LocalDate(t), mtime |-> t]})

(***************************************************************************)
(* calculate_countdown: the label and the number of days it shows.         *)
(***************************************************************************)
Abs(x) == IF x < 0 THEN -x ELSE x

\* a calculate_countdown that reports the day of the deadline as overdue
calculate_countdown_late(deadline_str, t) ==
  IF ~Truthy(deadline_str) THEN [label |-> "N/A", days |-> 0]
  ELSE
    LET p == strptime(deadline_str) IN
    IF ~p.ok THEN [label |-> "Invalid Date", days |-> 0]
    ELSE
      LET delta == p.v.d - LocalDate(t) IN
      IF delta <= 0 THEN [label |-> "days OVERDUE", days |-> Abs(delta)]
      ELSE IF delta = 1 THEN [label |-> "1 day left", days |-> 1]
      ELSE [label |-> "days left", days |-> delta]

\* calculate_countdown(deadline_str) when get_local_now() is t
calculate_countdown(deadline_str, t) ==
  IF ~Truthy(deadline_str) THEN [label |-> "N/A", days |-> 0]
  ELSE
    LET p == strptime(deadline_str) IN
    IF ~p.ok THEN [label |-> "Invalid Date", days |-> 0]
    ELSE
      LET delta == p.v.d - LocalDate(t) IN
      IF delta < 0 THEN [label |-> "days OVERDUE", days |-> Abs(delta)]
      ELSE IF delta = 0 THEN [label |-> "DUE TODAY", days |-> 0]
      ELSE IF delta = 1 THEN [label |-> "1 day left", days |-> 1]
      ELSE [label |-> "days left", days |-> delta]

(***************************************************************************)
(* save_data.  The chapter loop mutates the dicts of data_dict['chapters'] *)
(* in place, so it returns the list as well as the table; a TypeError of   *)
(* json.dumps inside Table.update / Table.insert ends save_data at once.   *)
(***************************************************************************)
\* lines 128-132
SaveMetadata(t, meta) ==
  IF TableContains(t, 1) THEN TablePut(t, 1, meta)
  ELSE TableInsert(t, [meta EXCEPT !.doc_id = 1])

\* lines 140-159: the chapter dict as it is handed to TinyDB
PrepareChapter(t, c, t_now) ==
  LET c1 == IF IsDate(c.deadline) THEN [c EXCEPT !.deadline = strftime(c.deadline)] ELSE c
      c2 == IF c1.changed THEN [c1 EXCEPT !.last_edited = t_now, !.changed = FALSE] ELSE c1
      c3 == [c2 EXCEPT !.word_count = IF c2.word_count = MissingWc THEN 0 ELSE c2.word_count]
      exists == TableContains(t, c.id)
  IN IF exists /\ t[c.id].word_count # c3.word_count
     THEN [c3 EXCEPT !.previous_word_count =
             IF t[c.id].word_count = MissingWc THEN 0 ELSE t[c.id].word_count]
     ELSE IF ~exists THEN [c3 EXCEPT !.previous_word_count = 0]
     ELSE c3

\* json.dumps(data) of the table holding this document
Serializable(c) == JsonOk(c.deadline) /\ JsonOk(c.deadline_obj)

RECURSIVE SaveChapters(_, _, _, _)
\* lines 136-165, from the i-th chapter of acc.mem on
SaveChapters(acc, i, t_now, n) ==
  IF i > n \/ acc.raised THEN acc
  ELSE
    LET c == acc.mem[i] IN
    IF c.id = 0 THEN SaveChapters(acc, i + 1, t_now, n)
    ELSE
      LET pc == PrepareChapter(acc.tab, c, t_now)
          mem2 == [acc.mem EXCEPT ![i] = pc]
      IN IF ~Serializable(pc)
         THEN [acc EXCEPT !.mem = mem2, !.raised = TRUE]
         ELSE SaveChapters(
                [tab |-> IF TableContains(acc.tab, c.id)
                         THEN TableUpdate(acc.tab, c.id, pc)
                         ELSE TableInsert(acc.tab, pc),
                 mem |-> mem2,
                 saved |-> acc.saved \cup {c.id},
                 raised |-> FALSE],
                i + 1, t_now, n)

RECURSIVE SaveItems(_, _, _, _)
\* lines 175-187 and 197-205: the upsert loop of editing passes and of todos
SaveItems(acc, items, i, n) ==
  IF i > n THEN acc
  ELSE
    LET x == items[i] IN
    IF x.id = 0 THEN SaveItems(acc, items, i + 1, n)
    ELSE SaveItems(
           [tab |-> IF TableContains(acc.tab, x.id) THEN TablePut(acc.tab, x.id, x)
                    ELSE TableInsert(acc.tab, x),
            saved |-> acc.saved \cup {x.id}],
           items, i + 1, n)

\* a save_data that upserts only and removes nothing
RemoveNothing(t, saved) == t

\* lines 168-171, 189-192, 207-210
RemoveUnsaved(t, saved) == TableRemove(t, TableIds(t) \ saved)

\* save_data(data_dict): the store, the chapter list (mutated in place), the
\* snapshot directory, and whether an exception left save_data
save_data(data, st, files, t_now) ==
  LET meta == SaveMetadata(st.metadata, data.metadata)
      ch == SaveChapters([tab |-> st.chapters, mem |-> data.chapters, saved |-> {},
                          raised |-> FALSE], 1, t_now, Len(data.chapters))
      ps == SaveItems([tab |-> st.editing_passes, saved |-> {}],
                      data.editing_passes, 1, Len(data.editing_passes))
      td == SaveItems([tab |-> st.todos, saved |-> {}], data.todos, 1, Len(data.todos))
  IN IF ch.raised
     THEN [store |-> [st EXCEPT !.metadata = meta, !.chapters = ch.tab],
           chapters |-> ch.mem, snapshots |-> files, raised |-> TRUE]
     ELSE [store |-> [metadata |-> meta,
                      chapters |-> RemoveUnsaved(ch.tab, ch.saved),
                      editing_passes |-> RemoveUnsaved(ps.tab, ps.saved),
                      todos |-> RemoveUnsaved(td.tab, td.saved)],
           chapters |-> ch.mem,
           snapshots |-> create_snapshot(files, t_now),
           raised |-> FALSE]

(***************************************************************************)
(* The chapter tab: render, the user's edit of the table, reconciliation.  *)
(***************************************************************************)
\* lines 499-513: one row of chapters_for_editor
EditorRow(c) ==
  [id |-> c.id,
   Title |-> IF c.title = MissingStr THEN " " ELSE c.title,
   Status |-> IF c.status = MissingStr THEN "Not Started" ELSE c.status,
   WordCount |-> IF c.word_count = MissingWc THEN 0 ELSE c.word_count,
   Delta |-> (IF c.word_count = MissingWc THEN 0 ELSE c.word_count)
             - (IF c.previous_word_count = MissingWc
                THEN (IF c.word_count = MissingWc THEN 0 ELSE c.word_count)
                ELSE c.previous_word_count),
   Priority |-> IF c.priority = MissingStr THEN "Low" ELSE c.priority,
   Deadline |-> c.deadline_obj]

chapters_for_editor(chs) == [n \in 1..Len(chs) |-> EditorRow(chs[n])]

\* line 510: the Countdown column of the rendered table
Countdowns(chs, t) == [n \in 1..Len(chs) |-> calculate_countdown(chs[n].deadline, t)]

\* values a user can put into a cell of the data_editor
Titles == {"A", "B"}
Statuses == {"Not Started", "Done"}
Priorities == {"High", "Low"}
WordCounts == {0, 1, 2}
Days == {1, 2}
EditorDeadlines == {DNone} \cup {DateObj(d) : d \in Days}

\* a row the user appends: it has no _id (0)
NewRow(t, wc) ==
  [id |-> 0, Title |-> t, Status |-> "Not Started", WordCount |-> wc, Delta |-> 0,
   Priority |-> "Low", Deadline |-> DNone]
\* the k rows appended in one submission: k equal rows, or rows that differ in
\* title and word count
NewRows(k, same) ==
  [j \in 1..k |-> IF same THEN NewRow("A", 1)
                   ELSE NewRow(IF j % 2 = 1 THEN "A" ELSE "B", j % 3)]

RemoveAt(q, r) == [n \in 1..(Len(q) - 1) |-> IF n < r THEN q[n] ELSE q[n + 1]]

NoEdit == [kind |-> "none", row |-> 0, field |-> "", wc |-> 0, str |-> "", dl |-> DNone,
           new |-> <<>>]

\* the edits of one submission of a table with n rows
CellEdits(rows) ==
  {[NoEdit EXCEPT !.kind = "cell", !.row = r, !.field = "Title", !.str = v] :
      r \in 1..Len(rows), v \in Titles}
  \cup {[NoEdit EXCEPT !.kind = "cell", !.row = r, !.field = "Status", !.str = v] :
      r \in 1..Len(rows), v \in Statuses}
  \cup {[NoEdit EXCEPT !.kind = "cell", !.row = r, !.field = "Priority", !.str = v] :
      r \in 1..Len(rows), v \in Priorities}
  \cup {[NoEdit EXCEPT !.kind = "cell", !.row = r, !.field = "WordCount", !.wc = v] :
      r \in 1..Len(rows), v \in WordCounts}
  \cup {[NoEdit EXCEPT !.kind = "cell", !.row = r, !.field = "Deadline", !.dl = v] :
      r \in 1..Len(rows), v \in EditorDeadlines}

RowEdits(rows) ==
  {[NoEdit EXCEPT !.kind = "delete", !.row = r] : r \in 1..Len(rows)}
  \cup {[NoEdit EXCEPT !.kind = "add", !.new = NewRows(k, same)] :
      k \in 1..MaxNew, same \in BOOLEAN}
  \cup {[NoEdit EXCEPT !.kind = "delete_add", !.row = r, !.new = NewRows(1, TRUE)] :
      r \in 1..Len(rows)}

\* the table st.data_editor returns for the rendered rows and the user's edit
ApplyEdit(rows, e) ==
  IF e.kind = "cell" THEN
    [rows EXCEPT ![e.row] =
       IF e.field = "Title" THEN [@ EXCEPT !.Title = e.str]
       ELSE IF e.field = "Status" THEN [@ EXCEPT !.Status = e.str]
       ELSE IF e.field = "Priority" THEN [@ EXCEPT !.Priority = e.str]
       ELSE IF e.field = "WordCount" THEN [@ EXCEPT !.WordCount = e.wc]
       ELSE [@ EXCEPT !.Deadline = e.dl]]
  ELSE IF e.kind = "delete" THEN RemoveAt(rows, e.row)
  ELSE IF e.kind = "add" THEN rows \o e.new
  ELSE IF e.kind = "delete_add" THEN RemoveAt(rows, e.row) \o e.new
  ELSE rows

\* next((c for c in chapters if c['id'] == _id), None): its index, 0 for None
OriginalIndex(chs, i) ==
  IF \E n \in 1..Len(chs) : chs[n].id = i
  THEN Min({n \in 1..Len(chs) : chs[n].id = i})
  ELSE 0

\* lines 578-586: mapped_row
MappedDeadline(v) == IF IsDate(v) THEN strftime(v) ELSE DNone

\* lines 596-597: the stored string is parsed only when the edited value is a date
ComparedDeadline(orig, edited) ==
  IF IsStr(orig) /\ IsDate(edited) THEN strptime(orig).v ELSE orig

\* lines 590-608: does one of the five compared fields differ
FieldsDiffer(orig, row) ==
  \/ orig.title # row.Title
  \/ orig.status # row.Status
  \/ orig.word_count # row.WordCount
  \/ orig.priority # row.Priority
  \/ ComparedDeadline(orig.deadline, MappedDeadline(row.Deadline))
       # MappedDeadline(row.Deadline)

\* lines 588-620: the record appended to current_app_state for one edited row
ReconcileRow(chs, tab, row, t_now) ==
  LET n == OriginalIndex(chs, row.id) IN
  IF n # 0
  THEN [chs[n] EXCEPT
          !.id = row.id, !.title = row.Title, !.status = row.Status,
          !.word_count = row.WordCount, !.priority = row.Priority,
          !.deadline = MappedDeadline(row.Deadline),
          !.changed = FieldsDiffer(chs[n], row),
          !.previous_word_count =
             IF chs[n].previous_word_count = MissingWc
             THEN (IF chs[n].word_count = MissingWc THEN 0 ELSE chs[n].word_count)
             ELSE chs[n].previous_word_count]
  ELSE Chapter(get_next_id(tab), row.Title, row.Status, row.WordCount, 0,
               row.Priority, MappedDeadline(row.Deadline), DNone, t_now, TRUE)

\* lines 568-626: current_app_state and needs_save
Reconcile(chs, rows, tab, t_now) ==
  LET state == [n \in 1..Len(rows) |-> ReconcileRow(chs, tab, rows[n], t_now)] IN
  [state |-> state,
   needs_save |->
      \/ \E n \in 1..Len(rows) : state[n].changed
      \/ {chs[n].id : n \in 1..Len(chs)} # {rows[n].id : n \in 1..Len(rows)}]

(***************************************************************************)
(* State.                                                                  *)
(***************************************************************************)
VARIABLES
  db_file,    \* DB_FILE exists on disk
  demo_file,  \* DEMO_DATA_FILE exists on disk
  store,      \* the four TinyDB tables of DB_FILE
  snapshots,  \* the files of SNAPSHOT_DIR
  session,    \* st.session_state: is app_data set, and its value
  now,        \* the clock read by get_local_now()
  pending,    \* st.rerun() was called: the script runs again before any input
  retired,    \* per table, the doc_ids of the documents removed from it so far
  last        \* the last script run: its input (op, edit), whether save_data was
              \* called (saved) and left by an exception (raised), whether DB_FILE
              \* existed and what the store and the snapshot directory held
              \* before the run (db_existed, pre, files),
              \* the chapters of app_data before the chapter tab (mem) and the
              \* chapter list handed to save_data or computed by the tab (sub)

vars == <<db_file, demo_file, store, snapshots, session, now, pending, retired, last>>

EmptyData ==
  [chapters |-> <<>>, editing_passes |-> <<>>, todos |-> <<>>,
   metadata |-> DefaultMetadata]

NoSession == [loaded |-> FALSE, data |-> EmptyData]

NoRun ==
  [op |-> "init", edit |-> NoEdit, saved |-> FALSE, raised |-> FALSE,
   db_existed |-> TRUE, pre |-> EmptyStore, files |-> {}, mem |-> <<>>, sub |-> <<>>]

\* stored chapter documents a database file may hold when the program starts
Doc(i, t, wc, pwc, dl, le) ==
  Chapter(i, t, "Not Started", wc, pwc, "Low", dl, DNone, le, FALSE)

ChaptersOf(q) == [EmptyStore EXCEPT !.chapters = q]

InitStores ==
  { EmptyStore,
    \* three plain chapters
    ChaptersOf(<<Doc(1, "A", 1, 0, DNone, NoTime), Doc(2, "B", 2, 2, DNone, NoTime),
                 Doc(3, "A", 0, 0, DNone, NoTime)>>),
    \* a chapter with a valid deadline before one without
    ChaptersOf(<<Doc(1, "A", 1, 0, IsoStr(1), NoTime), Doc(2, "B", 2, 1, DNone, NoTime)>>),
    \* a chapter without a deadline before one with a valid deadline
    ChaptersOf(<<Doc(1, "B", 2, 1, DNone, NoTime), Doc(2, "A", 1, 0, IsoStr(1), NoTime)>>),
    \* a deadline string that is valid but not zero padded
    ChaptersOf(<<Doc(1, "A", 1, 0, LooseStr(0), NoTime)>>),
    \* a deadline string that does not parse
    ChaptersOf(<<Doc(1, "A", 1, 0, DBad, NoTime)>>),
    \* a document without the optional keys
    ChaptersOf(<<[Doc(1, MissingStr, MissingWc, MissingWc, DNone, NoTime)
                    EXCEPT !.status = MissingStr, !.priority = MissingStr]>>),
    \* a document without word_count that has previous_word_count
    ChaptersOf(<<Doc(1, "A", MissingWc, 2, DNone, NoTime)>>) }

\* SNAPSHOT_DIR when the program starts: empty, seven files of earlier dates, or
\* seven files the newest of which is the one of the current date
OldSnapshots(newest) ==
  {[name |-> d, mtime |-> d * TicksPerDay] : d \in (newest - 6)..newest}

InitSnapshots == {{}, OldSnapshots(-1), OldSnapshots(0)}

NoneRetired == [chapters |-> {}, editing_passes |-> {}, todos |-> {}]

\* the doc_ids removed so far, after a run that takes the store from st to st2
Retire(old, st, st2) ==
  [chapters |-> old.chapters \cup (TableIds(st.chapters) \ TableIds(st2.chapters)),
   editing_passes |-> old.editing_passes
                        \cup (TableIds(st.editing_passes) \ TableIds(st2.editing_passes)),
   todos |-> old.todos \cup (TableIds(st.todos) \ TableIds(st2.todos))]

Init ==
  /\ \/ db_file = FALSE /\ store = EmptyStore /\ demo_file \in BOOLEAN /\ snapshots = {}
     \/ db_file = TRUE /\ store \in InitStores /\ demo_file = TRUE /\ snapshots = {}
     \/ db_file = TRUE /\ store = EmptyStore /\ demo_file = TRUE
        /\ snapshots \in InitSnapshots
  /\ session = NoSession
  /\ now = 0
  /\ pending = FALSE
  /\ retired = NoneRetired
  /\ last = NoRun

(***************************************************************************)
(* One run of the script, top to bottom.                                   *)
(***************************************************************************)
\* lines 568-638: the chapter tab for the edit e of the rendered table
ChapterTab(data, st, files, e, t_now) ==
  LET rows == ApplyEdit(chapters_for_editor(data.chapters), e)
      rec == Reconcile(data.chapters, rows, st.chapters, t_now)
      sv == save_data([data EXCEPT !.chapters = rec.state], st, files, t_now)
  IN IF rec.needs_save
     THEN [store |-> sv.store, data |-> [data EXCEPT !.chapters = sv.chapters],
           snapshots |-> sv.snapshots, saved |-> TRUE, raised |-> sv.raised,
           sub |-> rec.state]
     ELSE [store |-> st, data |-> data, snapshots |-> files, saved |-> FALSE,
           raised |-> FALSE, sub |-> rec.state]

\* a handler that changed data and calls save_data(st.session_state.app_data)
SaveAppData(data, st, files, t_now) ==
  LET sv == save_data(data, st, files, t_now) IN
  [store |-> sv.store, data |-> [data EXCEPT !.chapters = sv.chapters],
   snapshots |-> sv.snapshots, saved |-> TRUE, raised |-> sv.raised,
   sub |-> data.chapters]

\* the chapter tab finds nothing to save, so the script reaches the later tabs
Quiet(data, st) ==
  ~Reconcile(data.chapters, chapters_for_editor(data.chapters), st.chapters, now + 1).needs_save

\* the variables after a script run that ended with result r.  st.rerun() follows
\* every save_data that returns; the run it starts is a step of its own when its
\* chapter tab has something to save, and changes nothing but the clock otherwise
Finish(op, e, mem, r) ==
  /\ db_file' = OpenDb(db_file)
  /\ demo_file' = demo_file
  /\ store' = r.store
  /\ snapshots' = r.snapshots
  /\ session' = [loaded |-> TRUE, data |-> r.data]
  /\ now' = now + 1
  /\ pending' = (r.saved /\ ~r.raised /\ ~Quiet(r.data, r.store))
  /\ retired' = Retire(retired, store, r.store)
  /\ last' = [op |-> op, edit |-> e, saved |-> r.saved, raised |-> r.raised,
              db_existed |-> db_file, pre |-> store, files |-> snapshots,
              mem |-> mem, sub |-> r.sub]

\* lines 358-361 then the rest of the script: the first run of a session
StartSession ==
  /\ ~session.loaded
  /\ now < MaxTime
  /\ LET ld == load_data(store, OpenDb(db_file), demo_file) IN
     Finish("start", NoEdit, ld.state.chapters,
            ChapterTab(ld.state, ld.store, snapshots, NoEdit, now + 1))

\* a run with no widget changed: after st.rerun(), or on any input that edits
\* nothing while the chapter tab has something to save (a run that finds nothing
\* to save changes only the clock and is left out)
Rerun ==
  /\ session.loaded
  /\ pending \/ ~Quiet(session.data, store)
  /\ now < MaxTime
  /\ Finish("rerun", NoEdit, session.data.chapters,
            ChapterTab(session.data, store, snapshots, NoEdit, now + 1))

\* the user edits the chapter table
EditChapters ==
  /\ session.loaded /\ ~pending
  /\ now < MaxTime
  /\ LET rows == chapters_for_editor(session.data.chapters) IN
     \E e \in CellEdits(rows) \cup RowEdits(rows) :
       /\ ApplyEdit(rows, e) # rows
       /\ Finish("edit", e, session.data.chapters,
                 ChapterTab(session.data, store, snapshots, e, now + 1))

\* lines 389-402: the target word count input
SetTargetWordCount ==
  /\ session.loaded /\ ~pending
  /\ now < MaxTime
  /\ \E v \in {DefaultTargetWordCount, DefaultTargetWordCount + TargetStep} :
       /\ v # session.data.metadata.target_word_count
       /\ Finish("target", NoEdit, session.data.chapters,
                 SaveAppData([session.data EXCEPT !.metadata.target_word_count = v],
                             store, snapshots, now + 1))

\* lines 474-479: the dark mode toggle
ToggleDarkMode ==
  /\ session.loaded /\ ~pending
  /\ now < MaxTime
  /\ Finish("dark", NoEdit, session.data.chapters,
            SaveAppData([session.data EXCEPT !.metadata.dark_mode = ~@],
                        store, snapshots, now + 1))

\* lines 666-670 and 732-736: a checkbox of an editing pass or of a todo
ToggleItem(items, n) == [items EXCEPT ![n].completed = ~@]

\* lines 679-682 and 743-746: the delete button (every item with that id goes)
DeleteItem(items, n) == SelectSeq(items, LAMBDA x : x.id # items[n].id)

\* lines 692-694: the ids the chapter selectbox offers, 0 for "None"
ChapterOptions(data) == {0} \cup {data.chapters[n].id : n \in 1..Len(data.chapters)}

TogglePass ==
  /\ session.loaded /\ ~pending /\ Quiet(session.data, store)
  /\ now < MaxTime
  /\ \E n \in 1..Len(session.data.editing_passes) :
       Finish("pass_toggle", NoEdit, session.data.chapters,
              SaveAppData([session.data EXCEPT
                             !.editing_passes = ToggleItem(@, n)],
                          store, snapshots, now + 1))

DeletePass ==
  /\ session.loaded /\ ~pending /\ Quiet(session.data, store)
  /\ now < MaxTime
  /\ \E n \in 1..Len(session.data.editing_passes) :
       Finish("pass_delete", NoEdit, session.data.chapters,
              SaveAppData([session.data EXCEPT
                             !.editing_passes = DeleteItem(@, n)],
                          store, snapshots, now + 1))

\* lines 697-712: the new_pass_form
AddPass ==
  /\ session.loaded /\ ~pending /\ Quiet(session.data, store)
  /\ now < MaxTime
  /\ Len(session.data.editing_passes) < MaxItems
  /\ \E ch \in ChapterOptions(session.data) :
       Finish("pass_add", NoEdit, session.data.chapters,
              SaveAppData([session.data EXCEPT
                             !.editing_passes =
                                Append(@, [id |-> get_next_id(store.editing_passes),
                                           chapter_id |-> ch, completed |-> FALSE])],
                          store, snapshots, now + 1))

ToggleTodo ==
  /\ session.loaded /\ ~pending /\ Quiet(session.data, store)
  /\ now < MaxTime
  /\ \E n \in 1..Len(session.data.todos) :
       Finish("todo_toggle", NoEdit, session.data.chapters,
              SaveAppData([session.data EXCEPT !.todos = ToggleItem(@, n)],
                          store, snapshots, now + 1))

DeleteTodo ==
  /\ session.loaded /\ ~pending /\ Quiet(session.data, store)
  /\ now < MaxTime
  /\ \E n \in 1..Len(session.data.todos) :
       Finish("todo_delete", NoEdit, session.data.chapters,
              SaveAppData([session.data EXCEPT !.todos = DeleteItem(@, n)],
                          store, snapshots, now + 1))

\* lines 751-761: the Add Task button
AddTodo ==
  /\ session.loaded /\ ~pending /\ Quiet(session.data, store)
  /\ now < MaxTime
  /\ Len(session.data.todos) < MaxItems
  /\ Finish("todo_add", NoEdit, session.data.chapters,
            SaveAppData([session.data EXCEPT
                           !.todos = Append(@, [id |-> get_next_id(store.todos),
                                                completed |-> FALSE])],
                        store, snapshots, now + 1))

\* the browser session ends; the next run starts with an empty session_state
CloseSession ==
  /\ session.loaded
  /\ session' = NoSession
  /\ pending' = FALSE
  /\ last' = [NoRun EXCEPT !.op = "close"]
  /\ UNCHANGED <<db_file, demo_file, store, snapshots, now, retired>>

Next ==
  \/ StartSession
  \/ Rerun
  \/ EditChapters
  \/ SetTargetWordCount
  \/ ToggleDarkMode
  \/ TogglePass
  \/ DeletePass
  \/ AddPass
  \/ ToggleTodo
  \/ DeleteTodo
  \/ AddTodo
  \/ CloseSession

Spec == Init /\ [][Next]_vars

(***************************************************************************)
(* Helpers of the properties.                                              *)
(***************************************************************************)
Ids(q) == {q[n].id : n \in 1..Len(q)}
IdSeq(q) == [n \in 1..Len(q) |-> q[n].id]
Positions(q, i) == {n \in 1..Len(q) : q[n].id = i}
\* save_data was called in the last run and returned
Returned == last.saved /\ ~last.raised
\* the positions of last.sub that hold the records made for appended rows
NewPositions == {n \in 1..Len(last.sub) : n > Len(last.sub) - Len(last.edit.new)}
MaxOrZero(S) == IF S = {} THEN 0 ELSE Max(S)
\* word_count / previous_word_count of a stored document, absent keys defaulted
WcOf(doc) == IF doc.word_count = MissingWc THEN 0 ELSE doc.word_count
PwcOf(doc) == IF doc.previous_word_count = MissingWc THEN 0 ELSE doc.previous_word_count
\* the record of last.sub that save_data writes last under identifier i
SubmittedAs(i) == last.sub[Max(Positions(last.sub, i))]

(***************************************************************************)
(* C1  Identity assignment.  The record the reconciler makes for a row     *)
(* without identifier has the identifier max(stored identifiers) + 1 (1    *)
(* for an empty table), which is above every stored identifier, the rows   *)
(* removed in the same submission included; and when the stored chapters   *)
(* are {1,2,3} and the submitted table omits row 3 and holds one new row,  *)
(* the chapters stored once save_data has returned are exactly {1,2,4}.    *)
(***************************************************************************)
OmitsRow3AddsOne ==
  /\ last.op = "edit" /\ last.edit.kind = "delete_add"
  /\ TableIds(last.pre.chapters) = {1, 2, 3}
  /\ IdSeq(last.mem) = <<1, 2, 3>>
  /\ last.mem[last.edit.row].id = 3

C1_IdentityAssignment ==
  /\ last.op = "edit" =>
       \A n \in NewPositions :
         /\ last.sub[n].id = MaxOrZero(TableIds(last.pre.chapters)) + 1
         /\ \A i \in TableIds(last.pre.chapters) : last.sub[n].id > i
  /\ (OmitsRow3AddsOne /\ Returned) =>
       /\ TableIds(store.chapters) = {1, 2, 4}
       /\ Ids(session.data.chapters) = {1, 2, 4}

C1_Witness ==
  /\ OmitsRow3AddsOne /\ Returned
  /\ TableIds(store.chapters) = {1, 2, 4}

(***************************************************************************)
(* C2  Identifiers are unique within a collection: whatever chapter table  *)
(* is submitted, the records of the next-state collection have pairwise    *)
(* distinct identifiers, and once save_data has returned every submitted   *)
(* row is a stored record of its own (as many stored chapters as rows).    *)
(***************************************************************************)
C2_UniqueIdentifiers ==
  last.op = "edit" =>
    /\ \A m, n \in 1..Len(last.sub) : m # n => last.sub[m].id # last.sub[n].id
    /\ Returned => Cardinality(TableIds(store.chapters)) = Len(session.data.chapters)

(***************************************************************************)
(* C3  Delete-by-absence.  Once save_data(state) has returned, the         *)
(* identifiers stored in each of the tables chapters, editing_passes and   *)
(* todos are exactly the identifiers of the records of the sequence that   *)
(* was supplied: every supplied record is stored under its identifier and  *)
(* every stored record whose identifier was not supplied is gone.          *)
(***************************************************************************)
C3_DeleteByAbsence ==
  Returned =>
    /\ TableIds(store.chapters) = Ids(last.sub)
    /\ TableIds(store.chapters) = Ids(session.data.chapters)
    /\ TableIds(store.editing_passes) = Ids(session.data.editing_passes)
    /\ TableIds(store.todos) = Ids(session.data.todos)

\* a chapter was removed and another one inserted by one save_data
C3_Witness ==
  /\ Returned
  /\ TableIds(last.pre.chapters) \ TableIds(store.chapters) # {}
  /\ TableIds(store.chapters) \ TableIds(last.pre.chapters) # {}

(***************************************************************************)
(* C4  previous_word_count shift.  For a chapter that is stored with a     *)
(* word_count and is submitted again: once save_data has returned, the     *)
(* stored previous_word_count is the word_count stored before the save if  *)
(* the submitted word_count differs from it, and is what it was before the *)
(* save if the word_count is unchanged.  An invariant of the whole model,  *)
(* so it holds after every sequence of submissions and saves.              *)
(***************************************************************************)
C4_PreviousWordCountShift ==
  Returned =>
    \A i \in TableIds(last.pre.chapters) \cap Ids(last.sub) :
      LET old == last.pre.chapters[i]
          new == store.chapters[i]
      IN old.word_count # MissingWc =>
           IF SubmittedAs(i).word_count # old.word_count
           THEN new.previous_word_count = old.word_count
           ELSE new.previous_word_count = PwcOf(old)

(***************************************************************************)
(* C5  last_edited stamp.  For a submitted record of a chapter that is     *)
(* stored and has a previous record in the in-memory chapters: once        *)
(* save_data has returned, the stored last_edited is the timestamp of the  *)
(* save if one of title, status, word_count, priority, deadline of the     *)
(* submitted record differs from the previous record, and is the           *)
(* last_edited stored before the save otherwise.                           *)
(***************************************************************************)
TrackedDiffer(prev, rec) ==
  \/ prev.title # rec.title
  \/ prev.status # rec.status
  \/ prev.word_count # rec.word_count
  \/ prev.priority # rec.priority
  \/ prev.deadline # rec.deadline

C5_LastEditedStamp ==
  Returned =>
    \A n \in 1..Len(last.sub) :
      LET i == last.sub[n].id
          m == OriginalIndex(last.mem, i)
      IN (m # 0 /\ TableContains(last.pre.chapters, i)) =>
           IF TrackedDiffer(last.mem[m], last.sub[n])
           THEN store.chapters[i].last_edited = now
           ELSE store.chapters[i].last_edited = last.pre.chapters[i].last_edited
(***************************************************************************)
(* C6  Round trip.  For every store the program reaches: s = load_data(),  *)
(* save_data(s), load_data() returns a state equal to s field for field    *)
(* (last_edited and previous_word_count of every chapter included), and    *)
(* save_data(s) returns.                                                   *)
(***************************************************************************)
RoundTrip(st) ==
  LET ld == load_data(st, TRUE, demo_file)
      sv == save_data(ld.state, ld.store, snapshots, now)
      again == load_data(sv.store, TRUE, demo_file)
  IN [raised |-> sv.raised, first |-> ld.state, second |-> again.state]

C6_RoundTrip ==
  session.loaded =>
    /\ ~RoundTrip(store).raised
    /\ RoundTrip(store).second = RoundTrip(store).first

(***************************************************************************)
(* C7  No spurious change detection.  In the first run of a session, where *)
(* the chapter table is rendered from load_data() and reconciled with no   *)
(* user edit, no record is marked changed and save_data is not called,     *)
(* whatever the stored deadline strings are and whichever optional fields  *)
(* the stored chapters lack.                                               *)
(***************************************************************************)
C7_NoSpuriousChange ==
  last.op = "start" =>
    /\ \A n \in 1..Len(last.sub) : ~last.sub[n].changed
    /\ ~last.saved

(***************************************************************************)
(* C8  No save path fails.  Every call of save_data, on a state made by    *)
(* load_data or by the chapter reconciler, returns: no chapter document    *)
(* handed to the JSON store holds a value that is not JSON-representable.  *)
(***************************************************************************)
C8_NoSaveFails ==
  last.saved => ~last.raised

(***************************************************************************)
(* C9  Demo bootstrap.  When the program starts with no database file and  *)
(* a demo file of three chapters without metadata, the first load_data()   *)
(* returns the chapters 1, 2, 3 in file order and the default metadata.    *)
(***************************************************************************)
C9_DemoBootstrap ==
  (last.op = "start" /\ ~last.db_existed /\ demo_file) =>
    /\ IdSeq(last.mem) = <<1, 2, 3>>
    /\ [n \in 1..Len(last.mem) |-> last.mem[n].title] = <<"A", "B", "C">>
    /\ session.data.metadata.project_start_word_count = 0
    /\ session.data.metadata.target_word_count = DefaultTargetWordCount
    /\ session.data.metadata.dark_mode = FALSE

(***************************************************************************)
(* C10  Displayed delta after a save.  Once save_data has returned, the    *)
(* delta word_count - previous_word_count rendered for a chapter that was  *)
(* stored before the save is 0 if the chapter's word_count is the one      *)
(* stored before the save, and is the new word_count minus the old one if  *)
(* the word_count changed.                                                 *)
(***************************************************************************)
C10_DeltaAfterSave ==
  Returned =>
    \A n \in 1..Len(session.data.chapters) :
      LET c == session.data.chapters[n]
          shown == chapters_for_editor(session.data.chapters)[n].Delta
      IN TableContains(last.pre.chapters, c.id) =>
           LET old == WcOf(last.pre.chapters[c.id]) IN
           IF c.word_count = old THEN shown = 0 ELSE shown = c.word_count - old

(***************************************************************************)
(* C11  Snapshot idempotence.  Once save_data has returned (its last step  *)
(* is create_snapshot), the snapshot directory holds exactly one file of   *)
(* the current local date, and when a file of that date was there before   *)
(* the call the directory is what it was: nothing created, overwritten or  *)
(* deleted.                                                                *)
(***************************************************************************)
C11_SnapshotIdempotence ==
  Returned =>
    /\ Cardinality({f \in snapshots : f.name = LocalDate(now)}) = 1
    /\ (\E f \in last.files : f.name = LocalDate(now)) => snapshots = last.files

\* the second save_data of a day: the first one made the day's snapshot
C11_Witness ==
  /\ Returned
  /\ \E f \in last.files : f.name = LocalDate(now) /\ f.mtime > 0
  /\ snapshots = last.files

(***************************************************************************)
(* C12  Snapshot pruning.  When the snapshot directory holds 7 files with  *)
(* distinct modification times, after a create_snapshot call, with or      *)
(* without a file of the current date, exactly MAX_SNAPSHOTS files remain  *)
(* and they are the newest by modification time.                           *)
(***************************************************************************)
C12_SnapshotPruning ==
  (Returned /\ Cardinality(last.files) = 7) =>
    /\ Cardinality(snapshots) = MAX_SNAPSHOTS
    /\ \A f \in snapshots :
         \A g \in (last.files \cup snapshots) \ snapshots : g.mtime < f.mtime

(***************************************************************************)
(* C13  Countdown labels.  For every deadline value D and current date T,  *)
(* calculate_countdown returns: "N/A" when D is absent; "Invalid Date"     *)
(* when D does not parse; otherwise "{T-D} days OVERDUE" when T > D, "DUE  *)
(* TODAY" when T = D, "1 day left" when T = D - 1, and "{D-T} days left"   *)
(* with D - T >= 2 when T < D - 1.  Checked for the Countdown column of    *)
(* the in-memory chapters and for every deadline value of CountdownInputs  *)
(* at the current date of every reachable state.                           *)
(***************************************************************************)
CountdownInputs ==
  {DNone, DBad} \cup {IsoStr(d) : d \in (-MaxTime)..MaxTime}
               \cup {LooseStr(d) : d \in (-MaxTime)..MaxTime}

ExpectedCountdown(D, T, out) ==
  IF D = DNone THEN out.label = "N/A"
  ELSE IF D.k \notin {"iso", "loose"} THEN out.label = "Invalid Date"
  ELSE IF T > D.d THEN out.label = "days OVERDUE" /\ out.days = T - D.d
  ELSE IF T = D.d THEN out.label = "DUE TODAY"
  ELSE IF T = D.d - 1 THEN out.label = "1 day left"
  ELSE out.label = "days left" /\ out.days = D.d - T /\ out.days >= 2

C13_CountdownLabels ==
  /\ \A D \in CountdownInputs :
       ExpectedCountdown(D, LocalDate(now), calculate_countdown(D, now))
  /\ \A n \in 1..Len(session.data.chapters) :
       ExpectedCountdown(session.data.chapters[n].deadline, LocalDate(now),
                         Countdowns(session.data.chapters, now)[n])

\* the table shows an overdue chapter
C13_Witness ==
  /\ session.loaded
  /\ \E n \in 1..Len(session.data.chapters) :
       Countdowns(session.data.chapters, now)[n] = [label |-> "days OVERDUE", days |-> 1]

(***************************************************************************)
(* C14  In-memory state agrees with the store.  After a save_data that the *)
(* chapter reconciler called and that returned, the chapters of the        *)
(* in-memory app state are the chapters load_data() returns from the       *)
(* store: the same identifiers in the same order, the same field values,   *)
(* and a deadline_obj that is the date of the deadline string.             *)
(***************************************************************************)
ReconcilerSaved == last.op \in {"start", "rerun", "edit"} /\ Returned

C14_MemoryAgreesWithStore ==
  ReconcilerSaved =>
    session.data.chapters = load_data(store, TRUE, demo_file).state.chapters

(***************************************************************************)
(* C15  Quiescence after a save.  After a submission of the chapter table  *)
(* that caused a save_data which returned, rendering the table from the    *)
(* resulting in-memory chapters and reconciling it with no further edit    *)
(* finds nothing to save: the run started by st.rerun() does not call      *)
(* save_data again.                                                        *)
(***************************************************************************)
C15_Quiescence ==
  (last.op = "edit" /\ Returned) =>
    /\ Quiet(session.data, store)
    /\ ~pending

(***************************************************************************)
(* C16  Referential integrity of editing passes.  In every reachable state *)
(* each stored editing pass has a chapter_id that is null (0) or the       *)
(* identifier of a chapter that is in the store.                           *)
(***************************************************************************)
C16_ReferentialIntegrity ==
  \A i \in TableIds(store.editing_passes) :
    \/ store.editing_passes[i].chapter_id = 0
    \/ TableContains(store.chapters, store.editing_passes[i].chapter_id)

(***************************************************************************)
(* C17  Identifiers are never reused.  In every reachable state no         *)
(* document of the chapters, editing_passes or todos table has a doc_id    *)
(* that an earlier save removed from that table: a record created after a  *)
(* deletion never gets the deleted identifier.                             *)
(***************************************************************************)
C17_NoIdentifierReuse ==
  /\ TableIds(store.chapters) \cap retired.chapters = {}
  /\ TableIds(store.editing_passes) \cap retired.editing_passes = {}
  /\ TableIds(store.todos) \cap retired.todos = {}

(***************************************************************************)
(* C18  Cross-collection frame.  A save_data called by a todo handler, an  *)
(* editing-pass handler, the target word count input or the dark mode      *)
(* toggle leaves the chapters table as it was: the same identifiers and,   *)
(* for every chapter, the same title, status, word_count,                  *)
(* previous_word_count, priority, deadline and last_edited (an absent      *)
(* field and its default count as the same value).                         *)
(***************************************************************************)
OtherSave ==
  /\ last.op \in {"target", "dark", "pass_toggle", "pass_delete", "pass_add",
                  "todo_toggle", "todo_delete", "todo_add"}
  /\ last.saved

StoredFields(doc) ==
  [title |-> doc.title,
   status |-> IF doc.status = MissingStr THEN "Not Started" ELSE doc.status,
   word_count |-> WcOf(doc),
   previous_word_count |-> PwcOf(doc),
   priority |-> IF doc.priority = MissingStr THEN "Low" ELSE doc.priority,
   deadline |-> doc.deadline,
   last_edited |-> doc.last_edited]

C18_CrossCollectionFrame ==
  OtherSave =>
    /\ TableIds(store.chapters) = TableIds(last.pre.chapters)
    /\ \A i \in TableIds(store.chapters) :
         StoredFields(store.chapters[i]) = StoredFields(last.pre.chapters[i])

====
